---------------------------- MODULE Spec2Model ----------------------------
(***************************************************************************)
(* Model of src/src/lib/utils/furigana.ts: the furigana format detector,   *)
(* the six format parsers, the renderer and the facade entry points.       *)
(*                                                                         *)
(* A JavaScript string is a sequence of one-character strings.  The        *)
(* library functions the module calls (String.prototype.trim / indexOf /   *)
(* split, RegExp exec, JSON.parse, Object.entries, the DOM text            *)
(* serialisation behind escapeHtml) are operators that compute what the    *)
(* library computes on the characters that occur in the inputs: letters,   *)
(* digits, space, tab, newline and the punctuation { } [ ] ( ) < > / " '   *)
(* : , & * _.  No input holds a backslash, '-', '.' or '+', so JSON        *)
(* escapes, negative numbers and fractions are outside the model.  The     *)
(* module runs in a browser: escapeHtml finds the document it uses.        *)
(***************************************************************************)
EXTENDS Integers, Sequences, FiniteSets

VARIABLES
    furiganaString,  \* the raw annotation string of the call
    originalText,    \* the original text of the call
    format,          \* the format argument, "omitted" when the call has none
    pc,              \* "idle", then the name of the function that was called
    tokens,          \* the local 'tokens' of parseFurigana when it returned
    called,          \* the format parser parseFurigana invoked, or "none"
    branch,          \* the return statement of parseFurigana that was taken
    result,          \* the ParsedFurigana returned
    detected,        \* the tag detectFuriganaFormat returned
    valid,           \* the boolean validateFurigana returned
    thrown           \* TRUE when the call ended in an exception

vars == <<furiganaString, originalText, format, pc, tokens, called, branch, result,
          detected, valid, thrown>>

-----------------------------------------------------------------------------
(* Strings                                                                 *)

Min(S) == CHOOSE x \in S : \A y \in S : x <= y

\* the characters matched by \s and removed by trim()
Whitespace == {" ", "\t", "\n", "\r"}

IsWhitespace(c) == c \in Whitespace

Digits == <<"0", "1", "2", "3", "4", "5", "6", "7", "8", "9">>

IsDigit(c) == \E k \in 1..Len(Digits) : Digits[k] = c

DigitVal(c) == (CHOOSE k \in 1..Len(Digits) : Digits[k] = c) - 1

\* s.substring(from) with a 0-based index
SubstringFrom(s, from) == SubSeq(s, from + 1, Len(s))

\* s.substring(from, to) with 0-based indexes, to exclusive
Substring(s, from, to) == SubSeq(s, from + 1, to)

\* does sub occur in s at 1-based position p
OccursAt(s, sub, p) ==
    /\ p >= 1
    /\ p + Len(sub) - 1 <= Len(s)
    /\ SubSeq(s, p, p + Len(sub) - 1) = sub

\* s.indexOf(sub): 0-based index of the first occurrence, -1 when none
IndexOf(s, sub) ==
    LET hits == {i \in 0..(Len(s) - Len(sub)) : OccursAt(s, sub, i + 1)}
    IN  IF hits = {} THEN -1 ELSE Min(hits)

Includes(s, sub) == IndexOf(s, sub) /= -1

StartsWith(s, sub) == OccursAt(s, sub, 1)

EndsWith(s, sub) == OccursAt(s, sub, Len(s) - Len(sub) + 1)

\* s.trim()
Trim(s) ==
    LET keep == {i \in 1..Len(s) : ~IsWhitespace(s[i])}
    IN  IF keep = {} THEN <<>>
        ELSE SubSeq(s, Min(keep), CHOOSE x \in keep : \A y \in keep : y <= x)

\* 1-based position of the first character at or after p that is in C,
\* Len(s) + 1 when there is none
ScanTo(s, p, C) == Min({i \in p..Len(s) : s[i] \in C} \cup {Len(s) + 1})

\* 1-based position of the first character at or after p that is not in C,
\* Len(s) + 1 when there is none
ScanPast(s, p, C) == Min({i \in p..Len(s) : s[i] \notin C} \cup {Len(s) + 1})

\* s.split(sep) for a one-character separator
RECURSIVE SplitChar(_, _)
SplitChar(s, sep) ==
    LET p == ScanTo(s, 1, {sep})
    IN  IF p > Len(s) THEN <<s>>
        ELSE <<SubSeq(s, 1, p - 1)>> \o SplitChar(SubSeq(s, p + 1, Len(s)), sep)

\* s.split(/\s+/): a maximal run of whitespace is one separator
RECURSIVE SplitWhitespace(_)
SplitWhitespace(s) ==
    LET p == ScanTo(s, 1, Whitespace)
        q == ScanPast(s, p, Whitespace)
    IN  IF p > Len(s) THEN <<s>>
        ELSE <<SubSeq(s, 1, p - 1)>> \o SplitWhitespace(SubSeq(s, q, Len(s)))

RECURSIVE Concat(_)
Concat(ss) == IF ss = <<>> THEN <<>> ELSE Head(ss) \o Concat(Tail(ss))

-----------------------------------------------------------------------------
(* JavaScript values, as JSON.parse builds them and as a token holds them. *)
(* Every value is a record of the same shape: t is the type tag, s the     *)
(* characters of a string, n the number (1/0 for true/false), items the    *)
(* elements of an array, props the own properties of an object in creation *)
(* order.                                                                  *)

JsValue(t, s, n, items, props) ==
    [t |-> t, s |-> s, n |-> n, items |-> items, props |-> props]

JsUndefined == JsValue("undefined", <<>>, 0, <<>>, <<>>)
JsNull == JsValue("null", <<>>, 0, <<>>, <<>>)
JsStr(s) == JsValue("string", s, 0, <<>>, <<>>)
JsNum(n) == JsValue("number", <<>>, n, <<>>, <<>>)
JsBool(b) == JsValue("boolean", <<>>, IF b THEN 1 ELSE 0, <<>>, <<>>)
JsArr(items) == JsValue("array", <<>>, 0, items, <<>>)
JsObj(props) == JsValue("object", <<>>, 0, <<>>, props)

\* ToBoolean
Truthy(v) ==
    CASE v.t = "undefined" -> FALSE
      [] v.t = "null" -> FALSE
      [] v.t = "string" -> v.s /= <<>>
      [] v.t = "number" -> v.n /= 0
      [] v.t = "boolean" -> v.n = 1
      [] OTHER -> TRUE

\* a === b for two values read from different properties: two objects or
\* arrays JSON.parse built are never the same reference
StrictEquals(a, b) ==
    /\ a.t = b.t
    /\ CASE a.t = "string" -> a.s = b.s
         [] a.t = "number" -> a.n = b.n
         [] a.t = "boolean" -> a.n = b.n
         [] a.t = "undefined" -> TRUE
         [] a.t = "null" -> TRUE
         [] OTHER -> FALSE

\* Number.prototype.toString of a non-negative integer
RECURSIVE NumToStr(_)
NumToStr(n) ==
    IF n < 10 THEN <<Digits[n + 1]>>
    ELSE NumToStr(n \div 10) \o <<Digits[(n % 10) + 1]>>

\* obj[key] = v as CreateDataProperty does it: an existing property keeps
\* its place and takes the new value
SetProp(props, key, v) ==
    IF \E i \in 1..Len(props) : props[i].k = key
    THEN [i \in 1..Len(props) |->
             IF props[i].k = key THEN [k |-> key, v |-> v] ELSE props[i]]
    ELSE Append(props, [k |-> key, v |-> v])

\* v[key] for a string key, undefined when v has no such own property
\* (a primitive or an array has none of the keys the parsers read)
GetProp(v, key) ==
    IF v.t = "object" /\ \E i \in 1..Len(v.props) : v.props[i].k = key
    THEN v.props[CHOOSE i \in 1..Len(v.props) : v.props[i].k = key].v
    ELSE JsUndefined

HasOwn(v, key) ==
    v.t = "object" /\ \E i \in 1..Len(v.props) : v.props[i].k = key

\* is key a canonical array index ("0", "7", "12", not "01")
IsArrayIndex(key) ==
    /\ key /= <<>>
    /\ \A i \in 1..Len(key) : IsDigit(key[i])
    /\ (Len(key) > 1 => key[1] /= "0")

RECURSIVE StrToNum(_)
StrToNum(key) ==
    IF key = <<>> THEN 0
    ELSE 10 * StrToNum(SubSeq(key, 1, Len(key) - 1)) + DigitVal(key[Len(key)])

\* SelectSeq without a higher-order argument: the properties whose key is
\* (idx = TRUE) or is not (idx = FALSE) an array index, in creation order
RECURSIVE PropsOfKind(_, _)
PropsOfKind(props, idx) ==
    IF props = <<>> THEN <<>>
    ELSE (IF IsArrayIndex(Head(props).k) = idx THEN <<Head(props)>> ELSE <<>>)
             \o PropsOfKind(Tail(props), idx)

\* properties with array-index keys, by ascending numeric value
RECURSIVE SortByIndex(_)
SortByIndex(q) ==
    IF q = <<>> THEN <<>>
    ELSE LET m == CHOOSE i \in 1..Len(q) :
                      \A j \in 1..Len(q) : StrToNum(q[i].k) <= StrToNum(q[j].k)
             rest == [j \in 1..(Len(q) - 1) |-> IF j < m THEN q[j] ELSE q[j + 1]]
         IN  <<q[m]>> \o SortByIndex(rest)

\* Object.entries(v) for an object or an array: array-index keys first in
\* ascending order, then the other keys in creation order
ObjectEntries(v) ==
    IF v.t = "array"
    THEN [i \in 1..Len(v.items) |-> [k |-> NumToStr(i - 1), v |-> v.items[i]]]
    ELSE SortByIndex(PropsOfKind(v.props, TRUE)) \o PropsOfKind(v.props, FALSE)

-----------------------------------------------------------------------------
(* JSON.parse: a recursive-descent reading of the JSON grammar.  A result  *)
(* is [ok, val, pos]: ok = FALSE is the SyntaxError JSON.parse throws, pos *)
(* the 1-based position after the value read.                              *)

DigitChars == {Digits[k] : k \in 1..Len(Digits)}

JsonFail == [ok |-> FALSE, val |-> JsUndefined, pos |-> 0]

JsonOk(v, pos) == [ok |-> TRUE, val |-> v, pos |-> pos]

CharAt(s, p) == IF p >= 1 /\ p <= Len(s) THEN s[p] ELSE "<end>"

\* a string literal opening at p: no raw control character inside
ParseJsonString(s, p) ==
    LET close == ScanTo(s, p + 1, {"\""})
        body == SubSeq(s, p + 1, close - 1)
    IN  IF close > Len(s) \/ \E i \in 1..Len(body) : body[i] \in {"\t", "\n", "\r"}
        THEN JsonFail
        ELSE JsonOk(JsStr(body), close + 1)

RECURSIVE Pow10(_)
Pow10(e) == IF e = 0 THEN 1 ELSE 10 * Pow10(e - 1)

\* a number opening with the digit at p: int part, optional exponent
ParseJsonNumber(s, p) ==
    LET intEnd == IF s[p] = "0" THEN p + 1 ELSE ScanPast(s, p, DigitChars)
        int == StrToNum(SubSeq(s, p, intEnd - 1))
        expEnd == ScanPast(s, intEnd + 1, DigitChars)
    IN  IF CharAt(s, intEnd) \in {"e", "E"}
        THEN IF expEnd = intEnd + 1 THEN JsonFail
             ELSE JsonOk(JsNum(int * Pow10(StrToNum(SubSeq(s, intEnd + 1, expEnd - 1)))),
                         expEnd)
        ELSE JsonOk(JsNum(int), intEnd)

RECURSIVE ParseJsonValue(_, _), ParseJsonElements(_, _, _), ParseJsonMembers(_, _, _)

\* the value that starts at the first non-whitespace position at or after p
ParseJsonValue(s, p) ==
    LET q == ScanPast(s, p, Whitespace)
        c == CharAt(s, q)
    IN  CASE c = "{" ->
                 IF CharAt(s, ScanPast(s, q + 1, Whitespace)) = "}"
                 THEN JsonOk(JsObj(<<>>), ScanPast(s, q + 1, Whitespace) + 1)
                 ELSE ParseJsonMembers(s, q + 1, <<>>)
          [] c = "[" ->
                 IF CharAt(s, ScanPast(s, q + 1, Whitespace)) = "]"
                 THEN JsonOk(JsArr(<<>>), ScanPast(s, q + 1, Whitespace) + 1)
                 ELSE ParseJsonElements(s, q + 1, <<>>)
          [] c = "\"" -> ParseJsonString(s, q)
          [] IsDigit(c) -> ParseJsonNumber(s, q)
          [] OccursAt(s, <<"n", "u", "l", "l">>, q) -> JsonOk(JsNull, q + 4)
          [] OccursAt(s, <<"t", "r", "u", "e">>, q) -> JsonOk(JsBool(TRUE), q + 4)
          [] OccursAt(s, <<"f", "a", "l", "s", "e">>, q) -> JsonOk(JsBool(FALSE), q + 5)
          [] OTHER -> JsonFail

\* the elements of an array from p on, items being those read so far
ParseJsonElements(s, p, items) ==
    LET v == ParseJsonValue(s, p)
        q == ScanPast(s, v.pos, Whitespace)
    IN  IF ~v.ok THEN JsonFail
        ELSE CASE CharAt(s, q) = "," -> ParseJsonElements(s, q + 1, Append(items, v.val))
               [] CharAt(s, q) = "]" -> JsonOk(JsArr(Append(items, v.val)), q + 1)
               [] OTHER -> JsonFail

\* the members of an object from p on, props being those read so far
ParseJsonMembers(s, p, props) ==
    LET kp == ScanPast(s, p, Whitespace)
        key == IF CharAt(s, kp) = "\"" THEN ParseJsonString(s, kp) ELSE JsonFail
        colon == ScanPast(s, key.pos, Whitespace)
        v == ParseJsonValue(s, colon + 1)
        q == ScanPast(s, v.pos, Whitespace)
    IN  IF ~key.ok \/ CharAt(s, colon) /= ":" THEN JsonFail
        ELSE IF ~v.ok THEN JsonFail
        ELSE CASE CharAt(s, q) = "," ->
                      ParseJsonMembers(s, q + 1, SetProp(props, key.val.s, v.val))
               [] CharAt(s, q) = "}" ->
                      JsonOk(JsObj(SetProp(props, key.val.s, v.val)), q + 1)
               [] OTHER -> JsonFail

\* JSON.parse(s): [ok, val]; ok = FALSE when it throws a SyntaxError
JsonParse(s) ==
    LET v == ParseJsonValue(s, 1)
    IN  IF v.ok /\ ScanPast(s, v.pos, Whitespace) > Len(s)
        THEN [ok |-> TRUE, val |-> v.val]
        ELSE [ok |-> FALSE, val |-> JsUndefined]

-----------------------------------------------------------------------------
(* Tokens.  A FuriganaToken is [text, reading, isRuby]; a token built      *)
(* without reading has reading = undefined, one built without isRuby has   *)
(* isRuby = FALSE (an absent isRuby is only ever tested for truth).        *)

Token(text, reading, isRuby) == [text |-> text, reading |-> reading, isRuby |-> isRuby]

PlainToken(s) == Token(JsStr(s), JsUndefined, FALSE)

\* what a parser hands back: its tokens; threw would mark an exception it
\* lets escape, and no parser does (each failing call sits in its own try)
Returned(toks) == [threw |-> FALSE, tokens |-> toks]

\* the align step that drops what precedes the match but not the match
AlignStepNoAdvance(acc, text, reading) ==
    LET index == IndexOf(acc.remainingText, text)
    IN  IF index /= -1
        THEN [tokens |->
                  (IF index > 0
                   THEN Append(acc.tokens, PlainToken(Substring(acc.remainingText, 0, index)))
                   ELSE acc.tokens) \o <<Token(JsStr(text), reading, TRUE)>>,
              remainingText |-> SubstringFrom(acc.remainingText, index)]
        ELSE acc

\* One entry of the align loop the json, brackets and key:value parsers each
\* spell out (lines 108-125, 196-212, 314-330): find text in the unconsumed
\* remainder, emit what precedes it and the annotated token, drop the
\* consumed part.  acc = [tokens, remainingText].
AlignStep(acc, text, reading) ==
    LET index == IndexOf(acc.remainingText, text)
    IN  IF index /= -1
        THEN [tokens |->
                  (IF index > 0
                   THEN Append(acc.tokens, PlainToken(Substring(acc.remainingText, 0, index)))
                   ELSE acc.tokens) \o <<Token(JsStr(text), reading, TRUE)>>,
              remainingText |-> SubstringFrom(acc.remainingText, index + Len(text))]
        ELSE acc

\* the trailing 'if (remainingText) tokens.push({ text: remainingText })'
AlignFinish(acc) ==
    IF acc.remainingText /= <<>>
    THEN Append(acc.tokens, PlainToken(acc.remainingText))
    ELSE acc.tokens

AlignStart(text) == [tokens |-> <<>>, remainingText |-> text]

\* the loop over pairs, each [text, reading] with reading a JS value
RECURSIVE AlignAll(_, _)
AlignAll(acc, pairs) ==
    IF pairs = <<>> THEN acc
    ELSE AlignAll(AlignStep(acc, Head(pairs).k, Head(pairs).v), Tail(pairs))

-----------------------------------------------------------------------------
(* The regular expressions, as the positions a backtracking matcher ends   *)
(* on.  A match is [ok, index, end, text, reading] with 1-based index and  *)
(* end the position after the match (the next lastIndex).                  *)

NoMatch == [ok |-> FALSE, index |-> 0, end |-> 0, text |-> <<>>, reading |-> <<>>]

Match(index, end, text, reading) ==
    [ok |-> TRUE, index |-> index, end |-> end, text |-> text, reading |-> reading]

\* /([^(]+)\(([^)]+)\)/ anchored at i: the greedy [^(]+ stops at the next
\* "(", the greedy [^)]+ at the next ")" and must not be empty
BracketMatchAt(s, i) ==
    LET open == ScanTo(s, i, {"("})
        close == ScanTo(s, open + 1, {")"})
    IN  IF s[i] /= "(" /\ open <= Len(s) /\ close <= Len(s) /\ close > open + 1
        THEN Match(i, close + 1, SubSeq(s, i, open - 1), SubSeq(s, open + 1, close - 1))
        ELSE NoMatch

\* bracketRegex.exec: the leftmost match at or after position from
BracketExec(s, from) ==
    LET starts == {i \in from..Len(s) : BracketMatchAt(s, i).ok}
    IN  IF starts = {} THEN NoMatch ELSE BracketMatchAt(s, Min(starts))

\* /<ruby>([^<]+)<rt>([^<]+)<\/rt><\/ruby>/ anchored at i
RubyOpen == <<"<", "r", "u", "b", "y", ">">>

RtOpen == <<"<", "r", "t", ">">>

RubyClose == <<"<", "/", "r", "t", ">", "<", "/", "r", "u", "b", "y", ">">>

RubyMatchAt(s, i) ==
    LET base == i + Len(RubyOpen)
        rt == ScanTo(s, base, {"<"})
        rd == rt + Len(RtOpen)
        close == ScanTo(s, rd, {"<"})
    IN  IF /\ OccursAt(s, RubyOpen, i)
           /\ rt > base
           /\ OccursAt(s, RtOpen, rt)
           /\ close > rd
           /\ OccursAt(s, RubyClose, close)
        THEN Match(i, close + Len(RubyClose), SubSeq(s, base, rt - 1), SubSeq(s, rd, close - 1))
        ELSE NoMatch

\* rubyRegex.exec: the leftmost match at or after position from
RubyExec(s, from) ==
    LET starts == {i \in from..Len(s) : RubyMatchAt(s, i).ok}
    IN  IF starts = {} THEN NoMatch ELSE RubyMatchAt(s, Min(starts))

\* /([^:,\s]+):([^,\s]+)/ anchored at i
KvMatchAt(s, i) ==
    LET colon == ScanTo(s, i, {":", ","} \cup Whitespace)
        end == ScanTo(s, colon + 1, {","} \cup Whitespace)
    IN  IF /\ s[i] \notin ({":", ","} \cup Whitespace)
           /\ CharAt(s, colon) = ":"
           /\ end > colon + 1
        THEN Match(i, end, SubSeq(s, i, colon - 1), SubSeq(s, colon + 1, end - 1))
        ELSE NoMatch

\* kvRegex.exec: the leftmost match at or after position from
KvExec(s, from) ==
    LET starts == {i \in from..Len(s) : KvMatchAt(s, i).ok}
    IN  IF starts = {} THEN NoMatch ELSE KvMatchAt(s, Min(starts))

\* /\([^)]+\)/.test(s)
HasParenGroup(s) ==
    \E i \in 1..Len(s) :
        LET close == ScanTo(s, i + 1, {")"})
        IN  s[i] = "(" /\ close <= Len(s) /\ close > i + 1

\* every match of the global regex from lastIndex on, as the
\* 'while (true) { match = regex.exec(s); if (match === null) break; ... }'
\* loops see them, as [k |-> text, v |-> reading] pairs
RECURSIVE BracketPairs(_, _)
BracketPairs(s, from) ==
    LET m == BracketExec(s, from)
    IN  IF ~m.ok THEN <<>>
        ELSE <<[k |-> m.text, v |-> JsStr(m.reading)]>> \o BracketPairs(s, m.end)

RECURSIVE KvPairs(_, _)
KvPairs(s, from) ==
    LET m == KvExec(s, from)
    IN  IF ~m.ok THEN <<>>
        ELSE <<[k |-> m.text, v |-> JsStr(m.reading)]>> \o KvPairs(s, m.end)

-----------------------------------------------------------------------------
(* The format parsers                                                      *)

\* parseAlternativeFormats: the key:value scan
parseAlternativeFormats(raw, text) ==
    Returned(AlignFinish(AlignAll(AlignStart(text), KvPairs(raw, 1))))

\* parseJsonFormat: a parsed object or array is aligned entry by entry, any
\* other parsed value leaves tokens empty, a SyntaxError goes to the
\* key:value scan
JsonTokens(raw, text, data) ==
    IF ~data.ok THEN parseAlternativeFormats(raw, text)
    ELSE IF data.val.t \in {"object", "array"}
    THEN Returned(AlignFinish(AlignAll(AlignStart(text), ObjectEntries(data.val))))
    ELSE Returned(<<>>)

parseJsonFormat(raw, text) == JsonTokens(raw, text, JsonParse(raw))

\* parseRubyFormat: the loop from lastIndex (0-based) on
RECURSIVE RubyScan(_, _, _)
RubyScan(s, lastIndex, toks) ==
    LET m == RubyExec(s, lastIndex + 1)
        beforeText == Substring(s, lastIndex, m.index - 1)
        remainingText == SubstringFrom(s, lastIndex)
    IN  IF m.ok
        THEN RubyScan(s, m.end - 1,
                 (IF m.index - 1 > lastIndex /\ Trim(beforeText) /= <<>>
                  THEN Append(toks, PlainToken(beforeText))
                  ELSE toks) \o <<Token(JsStr(m.text), JsStr(m.reading), TRUE)>>)
        ELSE IF lastIndex < Len(s) /\ Trim(remainingText) /= <<>>
        THEN Append(toks, PlainToken(remainingText))
        ELSE toks

parseRubyFormat(raw) == Returned(RubyScan(raw, 0, <<>>))

\* parseBracketsFormat
parseBracketsFormat(raw, text) ==
    Returned(AlignFinish(AlignAll(AlignStart(text), BracketPairs(raw, 1))))

\* parts[i], undefined past the end
PartAt(parts, i) == IF i + 1 <= Len(parts) THEN JsStr(parts[i + 1]) ELSE JsUndefined

\* parseSpacedFormat: the loop 'for (i = 0; i < parts.length; i += 2)'
RECURSIVE SpacedScan(_, _)
SpacedScan(parts, i) ==
    IF i >= Len(parts) THEN <<>>
    ELSE LET text == PartAt(parts, i)
             reading == PartAt(parts, i + 1)
         IN  (IF Truthy(text)
              THEN <<Token(text, IF Truthy(reading) THEN reading ELSE JsUndefined,
                           Truthy(reading))>>
              ELSE <<>>) \o SpacedScan(parts, i + 2)

parseSpacedFormat(raw, text) == Returned(SpacedScan(SplitWhitespace(raw), 0))

Eos == <<"E", "O", "S">>

Star == <<"*">>

\* the token of one line of tagger output, <<>> when the line gives none
MecabLine(line) ==
    LET parts == SplitChar(line, "\t")
        text == JsStr(parts[1])
        features == SplitChar(parts[2], ",")
        field == PartAt(features, 7)
        reading == IF ~StrictEquals(field, JsStr(Star)) THEN field ELSE JsUndefined
    IN  IF Trim(line) = Eos THEN <<>>
        ELSE IF Len(parts) >= 2
        THEN <<Token(text, reading, Truthy(reading) /\ ~StrictEquals(reading, text))>>
        ELSE <<>>

RECURSIVE MecabLines(_)
MecabLines(lines) ==
    IF lines = <<>> THEN <<>> ELSE MecabLine(Head(lines)) \o MecabLines(Tail(lines))

\* parseMecabFormat
parseMecabFormat(raw) == Returned(MecabLines(SplitChar(raw, "\n")))

SurfaceForm == <<"s", "u", "r", "f", "a", "c", "e", "_", "f", "o", "r", "m">>

TextKey == <<"t", "e", "x", "t">>

ReadingKey == <<"r", "e", "a", "d", "i", "n", "g">>

\* a || b
JsOr(a, b) == IF Truthy(a) THEN a ELSE b

\* the token built from one element of the segmenter array
KuromojiToken(token) ==
    LET surface == GetProp(token, SurfaceForm)
        reading == GetProp(token, ReadingKey)
    IN  Token(JsOr(JsOr(surface, GetProp(token, TextKey)), JsStr(<<>>)),
              reading,
              Truthy(reading) /\ ~StrictEquals(reading, surface))

\* parseKuromojiFormat: a SyntaxError, or the TypeError of reading a
\* property of null, is caught and gives no tokens
KuromojiTokens(data) ==
    IF ~data.ok THEN Returned(<<>>)
    ELSE IF data.val.t = "array"
    THEN IF \E i \in 1..Len(data.val.items) : data.val.items[i].t = "null"
         THEN Returned(<<>>)
         ELSE Returned([i \in 1..Len(data.val.items) |->
                           KuromojiToken(data.val.items[i])])
    ELSE Returned(<<>>)

parseKuromojiFormat(raw) == KuromojiTokens(JsonParse(raw))

-----------------------------------------------------------------------------
(* The renderer                                                            *)

\* a computed string, or the exception raised while computing it
Str(s) == [threw |-> FALSE, s |-> s]

StrThrown == [threw |-> TRUE, s |-> <<>>]

ToStringKey == <<"t", "o", "S", "t", "r", "i", "n", "g">>

\* JsToString(v), which the textContent setter applies to a value that is not
\* a string: an object that JSON.parse gave an own "toString" property has
\* no callable conversion left and raises a TypeError
RECURSIVE JsToString(_), JoinItems(_)
JsToString(v) ==
    CASE v.t = "string" -> Str(v.s)
      [] v.t = "number" -> Str(NumToStr(v.n))
      [] v.t = "boolean" ->
             Str(IF v.n = 1 THEN <<"t", "r", "u", "e">> ELSE <<"f", "a", "l", "s", "e">>)
      [] v.t = "array" -> JoinItems(v.items)
      [] v.t = "object" ->
             IF HasOwn(v, ToStringKey) THEN StrThrown
             ELSE Str(<<"[", "o", "b", "j", "e", "c", "t", " ",
                        "O", "b", "j", "e", "c", "t", "]">>)
      [] OTHER -> Str(<<>>)

\* Array.prototype.join(","): null and undefined elements give ""
JoinItems(items) ==
    IF items = <<>> THEN Str(<<>>)
    ELSE LET h == IF Head(items).t \in {"null", "undefined"} THEN Str(<<>>)
                  ELSE JsToString(Head(items))
             r == JoinItems(Tail(items))
         IN  IF h.threw \/ r.threw THEN StrThrown
             ELSE IF Len(items) = 1 THEN h
             ELSE Str(h.s \o <<",">> \o r.s)

\* the serialisation that lets '<' through
EscapeCharNoLt(c) ==
    CASE c = "&" -> <<"&", "a", "m", "p", ";">>
      [] c = ">" -> <<"&", "g", "t", ";">>
      [] OTHER -> <<c>>

\* the serialisation of one character of a text node, as innerHTML gives
\* it: '&', '<' and '>' become entities, a quote character stays as it is
EscapeChar(c) ==
    CASE c = "&" -> <<"&", "a", "m", "p", ";">>
      [] c = "<" -> <<"&", "l", "t", ";">>
      [] c = ">" -> <<"&", "g", "t", ";">>
      [] OTHER -> <<c>>

RECURSIVE EscapeChars(_)
EscapeChars(s) ==
    IF s = <<>> THEN <<>> ELSE EscapeChar(Head(s)) \o EscapeChars(Tail(s))

\* escapeHtml: div.textContent = text; return div.innerHTML
escapeHtml(v) ==
    LET text == JsToString(v)
    IN  IF text.threw THEN StrThrown ELSE Str(EscapeChars(text.s))

RubyEnd == <<"<", "/", "r", "u", "b", "y", ">">>

RtEnd == <<"<", "/", "r", "t", ">">>

\* does the renderer give the token a ruby fragment
RendersRuby(token) ==
    Truthy(token.reading) /\ ~StrictEquals(token.reading, token.text) /\ token.isRuby

\* the markup of one token
RenderToken(token) ==
    LET text == escapeHtml(token.text)
        reading == escapeHtml(token.reading)
    IN  IF RendersRuby(token)
        THEN IF text.threw \/ reading.threw THEN StrThrown
             ELSE Str(RubyOpen \o text.s \o RtOpen \o reading.s \o RtEnd \o RubyEnd)
        ELSE text

\* renderFuriganaHtml: tokens.map(...).join("")
RECURSIVE renderFuriganaHtml(_)
renderFuriganaHtml(toks) ==
    IF toks = <<>> THEN Str(<<>>)
    ELSE LET h == RenderToken(Head(toks))
             r == renderFuriganaHtml(Tail(toks))
         IN  IF h.threw \/ r.threw THEN StrThrown ELSE Str(h.s \o r.s)

-----------------------------------------------------------------------------
(* The facade                                                              *)

KnownFormats == {"json", "ruby", "brackets", "spaced", "mecab", "kuromoji"}

\* what a call hands back: [threw, result, tokens, called, branch].  result
\* is the ParsedFurigana; tokens the local 'tokens' (line 49) as the call
\* left it; called the format parser the switch invoked, "none" when it
\* invoked none; branch the return statement that produced the result:
\* "blank" (line 41), "default" (line 72), "rendered" (line 79) or "catch"
\* (line 87).
NoResult == [html |-> <<>>, text |-> <<>>, hasFurigana |-> FALSE]

Outcome(threw, res, toks, parser, ret) ==
    [threw |-> threw, result |-> res, tokens |-> toks, called |-> parser,
     branch |-> ret]

\* the plain-text result built at lines 41-45, 72-76 and 87-91; escapeHtml
\* runs outside the try block there
PlainFrom(text, html, toks, parser, ret) ==
    IF html.threw THEN Outcome(TRUE, NoResult, toks, parser, ret)
    ELSE Outcome(FALSE, [html |-> html.s, text |-> text, hasFurigana |-> FALSE],
                 toks, parser, ret)

PlainResult(text, toks, parser, ret) ==
    PlainFrom(text, escapeHtml(JsStr(text)), toks, parser, ret)

\* the switch of parseFurigana
Dispatch(raw, text, fmt) ==
    CASE fmt = "json" -> parseJsonFormat(raw, text)
      [] fmt = "ruby" -> parseRubyFormat(raw)
      [] fmt = "brackets" -> parseBracketsFormat(raw, text)
      [] fmt = "spaced" -> parseSpacedFormat(raw, text)
      [] fmt = "mecab" -> parseMecabFormat(raw)
      [] fmt = "kuromoji" -> parseKuromojiFormat(raw)

\* tokens.some((token) => token.reading): the comparison with the text left out
HasFuriganaAnyReading(toks) ==
    \E i \in 1..Len(toks) : Truthy(toks[i].reading)

\* tokens.some((token) => token.reading && token.reading !== token.text)
HasFurigana(toks) ==
    \E i \in 1..Len(toks) :
        Truthy(toks[i].reading) /\ ~StrictEquals(toks[i].reading, toks[i].text)

\* lines 79-91 without the catch: an exception of the parser or of the
\* renderer reaches the caller
RenderedNoCatch(text, fmt, parsed, html) ==
    IF parsed.threw \/ html.threw
    THEN Outcome(TRUE, NoResult, parsed.tokens, fmt, "rendered")
    ELSE Outcome(FALSE,
                 [html |-> html.s, text |-> text,
                  hasFurigana |-> HasFurigana(parsed.tokens)],
                 parsed.tokens, fmt, "rendered")

\* lines 79-91: the result built from the tokens and their markup, the
\* plain-text result when the parser or the renderer threw
Rendered(text, fmt, parsed, html) ==
    IF parsed.threw \/ html.threw THEN PlainResult(text, parsed.tokens, fmt, "catch")
    ELSE Outcome(FALSE,
                 [html |-> html.s, text |-> text,
                  hasFurigana |-> HasFurigana(parsed.tokens)],
                 parsed.tokens, fmt, "rendered")

\* lines 48-78: the try block
TryParse(text, fmt, parsed) ==
    Rendered(text, fmt, parsed, renderFuriganaHtml(parsed.tokens))

\* an omitted format is "json" (line 38)
DefaultFormat(formatArg) == IF formatArg = "omitted" THEN "json" ELSE formatArg

\* parseFurigana without the blank test of line 40
ParseWithNoBlankTest(raw, text, fmt) ==
    IF fmt \notin KnownFormats THEN PlainResult(text, <<>>, "none", "default")
    ELSE TryParse(text, fmt, Dispatch(raw, text, fmt))

\* the body of parseFurigana for the format fmt
ParseWith(raw, text, fmt) ==
    IF raw = <<>> \/ Trim(raw) = <<>> THEN PlainResult(text, <<>>, "none", "blank")
    ELSE IF fmt \notin KnownFormats THEN PlainResult(text, <<>>, "none", "default")
    ELSE TryParse(text, fmt, Dispatch(raw, text, fmt))

\* parseFurigana
parseFurigana(raw, text, formatArg) == ParseWith(raw, text, DefaultFormat(formatArg))

\* detectFuriganaFormat
\* the detector with the mecab test moved before the spaced test
DetectFromMecabFirst(raw, trimmed, data) ==
    IF raw = <<>> THEN "json"
    ELSE IF StartsWith(trimmed, <<"{">>) /\ EndsWith(trimmed, <<"}">>) /\ data.ok
    THEN "json"
    ELSE IF Includes(raw, RubyOpen) /\ Includes(raw, RtOpen) THEN "ruby"
    ELSE IF HasParenGroup(raw) THEN "brackets"
    ELSE IF Includes(raw, <<"\t">>) /\ Includes(raw, <<",">>) THEN "mecab"
    ELSE IF Len(SplitWhitespace(raw)) >= 4 THEN "spaced"
    ELSE IF /\ StartsWith(trimmed, <<"[">>)
            /\ EndsWith(trimmed, <<"]">>)
            /\ data.ok
            /\ data.val.t = "array"
    THEN "kuromoji"
    ELSE "json"

\* the detector with the spaced test asking for five parts
DetectFromFiveParts(raw, trimmed, data) ==
    IF raw = <<>> THEN "json"
    ELSE IF StartsWith(trimmed, <<"{">>) /\ EndsWith(trimmed, <<"}">>) /\ data.ok
    THEN "json"
    ELSE IF Includes(raw, RubyOpen) /\ Includes(raw, RtOpen) THEN "ruby"
    ELSE IF HasParenGroup(raw) THEN "brackets"
    ELSE IF Len(SplitWhitespace(raw)) >= 5 THEN "spaced"
    ELSE IF Includes(raw, <<"\t">>) /\ Includes(raw, <<",">>) THEN "mecab"
    ELSE IF /\ StartsWith(trimmed, <<"[">>)
            /\ EndsWith(trimmed, <<"]">>)
            /\ data.ok
            /\ data.val.t = "array"
    THEN "kuromoji"
    ELSE "json"

\* detectFuriganaFormat, on raw, raw.trim() and the outcome of JSON.parse(raw)
DetectFrom(raw, trimmed, data) ==
    IF raw = <<>> THEN "json"
    ELSE IF StartsWith(trimmed, <<"{">>) /\ EndsWith(trimmed, <<"}">>) /\ data.ok
    THEN "json"
    ELSE IF Includes(raw, RubyOpen) /\ Includes(raw, RtOpen) THEN "ruby"
    ELSE IF HasParenGroup(raw) THEN "brackets"
    ELSE IF Len(SplitWhitespace(raw)) >= 4 THEN "spaced"
    ELSE IF Includes(raw, <<"\t">>) /\ Includes(raw, <<",">>) THEN "mecab"
    ELSE IF /\ StartsWith(trimmed, <<"[">>)
            /\ EndsWith(trimmed, <<"]">>)
            /\ data.ok
            /\ data.val.t = "array"
    THEN "kuromoji"
    ELSE "json"

detectFuriganaFormat(raw) == DetectFrom(raw, Trim(raw), JsonParse(raw))

\* parseFuriganaAuto
parseFuriganaAuto(raw, text) == parseFurigana(raw, text, detectFuriganaFormat(raw))

\* validateFurigana: [threw, value]
Validated(parsed) ==
    IF parsed.threw THEN [threw |-> FALSE, value |-> FALSE]
    ELSE [threw |-> FALSE, value |-> parsed.result.hasFurigana]

validateFurigana(raw, text) == Validated(parseFuriganaAuto(raw, text))

-----------------------------------------------------------------------------
(* Inputs.  The raw annotation strings are one list per encoding, each     *)
(* string written character by character with its reading after it, plus   *)
(* mappings and bracket pairs generated from every sequence of up to       *)
(* MaxEntries entries; the original texts are every string of up to        *)
(* MaxTextLen characters and a few longer ones.                            *)

MaxTextLen == 2

MaxEntries == 2

\* empty and whitespace-only input
BlankRaws ==
    { <<>>, \* 
      <<" ">>, \*  
      <<" ", "\t">> } \*  <TAB>

\* JSON mappings and other JSON values
JsonRaws ==
    { <<"{", "\"", "a", "\"", ":", "\"", "x", "\"", "}">>, \* {"a":"x"}
      <<"{", "\"", "b", "\"", ":", "\"", "y", "\"", ",", "\"", "a", "\"", ":", "\"", "x", "\"", "}">>, \* {"b":"y","a":"x"}
      <<"{", "\"", "a", "\"", ":", "\"", "x", "\"", ",", "\"", "b", "\"", ":", "\"", "y", "\"", "}">>, \* {"a":"x","b":"y"}
      <<"{", "\"", "\"", ":", "\"", "x", "\"", "}">>, \* {"":"x"}
      <<"{", "\"", "b", "\"", ":", "\"", "x", "\"", ",", "\"", "1", "\"", ":", "\"", "y", "\"", "}">>, \* {"b":"x","1":"y"}
      <<"{", "\"", "a", "\"", ":", "0", "}">>, \* {"a":0}
      <<"{", "\"", "a", "\"", ":", "5", "}">>, \* {"a":5}
      <<"{", "\"", "a", "\"", ":", "\"", "a", "\"", "}">>, \* {"a":"a"}
      <<"{", "\"", "<", "\"", ":", "\"", "&", "\"", "}">>, \* {"<":"&"}
      <<"{", "\"", "a", "\"", ":", "\"", "'", "\"", "}">>, \* {"a":"'"}
      <<"{", "\"", "a", "\"", ":", "{", "\"", "t", "o", "S", "t", "r", "i", "n", "g", "\"", ":", "1", "}", "}">>, \* {"a":{"toString":1}}
      <<"{", "\"", "a", "\"", ":", "\"", "x", "\"", ",", "\"", "a", "\"", ":", "\"", "y", "\"", "}">>, \* {"a":"x","a":"y"}
      <<" ", "{", "\"", "a", "\"", ":", "\"", "x", "\"", "}", " ">>, \*  {"a":"x"} 
      <<"5">>, \* 5
      <<"\"", "a", "\"">>, \* "a"
      <<"n", "u", "l", "l">>, \* null
      <<"[", "\"", "a", "\"", "]">>, \* ["a"]
      <<"{", "}">> } \* {}

\* input that is not JSON
KeyValueRaws ==
    { <<"{", "a", ":", "x", "}">>, \* {a:x}
      <<"a", ":", "x">>, \* a:x
      <<"b", ":", "y", ",", "a", ":", "x">>, \* b:y,a:x
      <<"a", ":">>, \* a:
      <<"x">>, \* x
      <<"<", ":", "\"">> } \* <:"

\* segmenter arrays
KuromojiRaws ==
    { <<"[", "{", "\"", "s", "u", "r", "f", "a", "c", "e", "_", "f", "o", "r", "m", "\"", ":", "\"", "a", "\"", ",", "\"", "r", "e", "a", "d", "i", "n", "g", "\"", ":", "\"", "x", "\"", "}", "]">>, \* [{"surface_form":"a","reading":"x"}]
      <<"[", "{", "\"", "s", "u", "r", "f", "a", "c", "e", "_", "f", "o", "r", "m", "\"", ":", "\"", "a", "\"", ",", "\"", "r", "e", "a", "d", "i", "n", "g", "\"", ":", "\"", "a", "\"", "}", "]">>, \* [{"surface_form":"a","reading":"a"}]
      <<"[", "{", "\"", "t", "e", "x", "t", "\"", ":", "\"", "a", "\"", ",", "\"", "r", "e", "a", "d", "i", "n", "g", "\"", ":", "\"", "x", "\"", "}", "]">>, \* [{"text":"a","reading":"x"}]
      <<"[", "{", "\"", "t", "e", "x", "t", "\"", ":", "\"", "a", "\"", ",", "\"", "r", "e", "a", "d", "i", "n", "g", "\"", ":", "\"", "a", "\"", "}", "]">>, \* [{"text":"a","reading":"a"}]
      <<"[", "{", "\"", "r", "e", "a", "d", "i", "n", "g", "\"", ":", "\"", "x", "\"", "}", "]">>, \* [{"reading":"x"}]
      <<"[", "{", "\"", "s", "u", "r", "f", "a", "c", "e", "_", "f", "o", "r", "m", "\"", ":", "\"", "a", "\"", "}", "]">>, \* [{"surface_form":"a"}]
      <<"[", "{", "\"", "s", "u", "r", "f", "a", "c", "e", "_", "f", "o", "r", "m", "\"", ":", "\"", "<", "\"", ",", "\"", "r", "e", "a", "d", "i", "n", "g", "\"", ":", "\"", "'", "\"", "}", "]">>, \* [{"surface_form":"<","reading":"'"}]
      <<"[", "{", "\"", "s", "u", "r", "f", "a", "c", "e", "_", "f", "o", "r", "m", "\"", ":", "\"", "a", "\"", ",", "\"", "r", "e", "a", "d", "i", "n", "g", "\"", ":", "{", "\"", "t", "o", "S", "t", "r", "i", "n", "g", "\"", ":", "1", "}", "}", "]">>, \* [{"surface_form":"a","reading":{"toString":1}}]
      <<"[", "{", "\"", "s", "u", "r", "f", "a", "c", "e", "_", "f", "o", "r", "m", "\"", ":", "\"", "a", "\"", ",", "\"", "r", "e", "a", "d", "i", "n", "g", "\"", ":", "\"", "x", "\"", "}", ",", "{", "\"", "s", "u", "r", "f", "a", "c", "e", "_", "f", "o", "r", "m", "\"", ":", "\"", "b", "\"", "}", "]">>, \* [{"surface_form":"a","reading":"x"},{"surface_form":"b"}]
      <<"[", "n", "u", "l", "l", "]">>, \* [null]
      <<"[", "5", "]">>, \* [5]
      <<"[", "]">>, \* []
      <<"[", "1", ",", "]">> } \* [1,]

\* inline ruby markup
RubyRaws ==
    { <<"<", "r", "u", "b", "y", ">", "a", "<", "r", "t", ">", "x", "<", "/", "r", "t", ">", "<", "/", "r", "u", "b", "y", ">">>, \* <ruby>a<rt>x</rt></ruby>
      <<"b", "<", "r", "u", "b", "y", ">", "a", "<", "r", "t", ">", "x", "<", "/", "r", "t", ">", "<", "/", "r", "u", "b", "y", ">", " ", "c">>, \* b<ruby>a<rt>x</rt></ruby> c
      <<"<", "r", "u", "b", "y", ">", "a", "<", "r", "t", ">", "a", "<", "/", "r", "t", ">", "<", "/", "r", "u", "b", "y", ">">>, \* <ruby>a<rt>a</rt></ruby>
      <<"<", "r", "u", "b", "y", ">", "&", "<", "r", "t", ">", "\"", "<", "/", "r", "t", ">", "<", "/", "r", "u", "b", "y", ">", ">">>, \* <ruby>&<rt>"</rt></ruby>>
      <<"<", "r", "u", "b", "y", ">", "<", "r", "t", ">">>, \* <ruby><rt>
      <<"<", "r", "u", "b", "y", ">", "a", "<", "r", "t", ">", "x", "<", "/", "r", "t", ">">>, \* <ruby>a<rt>x</rt>
      <<" ", "<", "r", "u", "b", "y", ">", "a", "<", "r", "t", ">", "x", "<", "/", "r", "t", ">", "<", "/", "r", "u", "b", "y", ">", " ">> } \*  <ruby>a<rt>x</rt></ruby> 

\* text(reading) pairs
BracketRaws ==
    { <<"a", "(", "x", ")">>, \* a(x)
      <<"a", "(", "x", ")", "b", "(", "y", ")">>, \* a(x)b(y)
      <<"b", "(", "y", ")", "a", "(", "x", ")">>, \* b(y)a(x)
      <<"a", "(", ")">>, \* a()
      <<"(", "x", ")">>, \* (x)
      <<"a", "(", "x">>, \* a(x
      <<"a", "(", "<", ")">>, \* a(<)
      <<"<", "(", "'", ")">>, \* <(')
      <<"a", "b", "(", "x", ")">> } \* ab(x)

\* whitespace-separated words
SpacedRaws ==
    { <<"a", " ", "x", " ", "b", " ", "y">>, \* a x b y
      <<"a", " ", "x", " ", "b">>, \* a x b
      <<" ", "a", " ", "x">>, \*  a x
      <<"a", " ", "x", " ">>, \* a x 
      <<"a", " ", "a">>, \* a a
      <<"a", "\t", "x", "\n", "b", " ", " ", "y">>, \* a<TAB>x<LF>b  y
      <<"<", " ", "&">>, \* < &
      <<"\"", " ", "'", " ", ">", " ", "x">>, \* " ' > x
      <<"a", " ", "x", " ", "b", " ", "y", " ", "c">> } \* a x b y c

\* tagger output
MecabRaws ==
    { <<"a", "\t", ",", ",", ",", ",", ",", ",", ",", "x">>, \* a<TAB>,,,,,,,x
      <<"a", "\t", ",", ",", ",", ",", ",", ",", ",", "x", "\n", "E", "O", "S">>, \* a<TAB>,,,,,,,x<LF>EOS
      <<"a", "\t", ",", ",", ",", ",", ",", ",", ",", "*">>, \* a<TAB>,,,,,,,*
      <<"a", "\t", ",", ",", ",", ",", ",", ",", ",", "a">>, \* a<TAB>,,,,,,,a
      <<"\t", ",", ",", ",", ",", ",", ",", ",", "x">>, \* <TAB>,,,,,,,x
      <<"E", "O", "S">>, \* EOS
      <<"a", "\t", "b">>, \* a<TAB>b
      <<"a", "\t", ",", ",", ",", ",", ",", ",", ",">>, \* a<TAB>,,,,,,,
      <<"<", "\t", ",", ",", ",", ",", ",", ",", ",", "&">>, \* <<TAB>,,,,,,,&
      <<"a", "\t", ",", ",", ",", ",", ",", ",", ",", "x", "\n", "b", "\t", ",", ",", ",", ",", ",", ",", ",", "y">>, \* a<TAB>,,,,,,,x<LF>b<TAB>,,,,,,,y
      <<" ", "E", "O", "S", " ", "\n", "a", "\t", ",", ",", ",", ",", ",", ",", ",", "x">> } \*  EOS <LF>a<TAB>,,,,,,,x
\* tagger output of several lines, with short feature lists
TaggerRaws ==
    {<<"a", "\t", ",", "x", "\n", "b", "\t", ",", "y">>, \* a<TAB>,x<LF>b<TAB>,y
      <<"a", "\t", ",", "x", "\n", "b", "\t", ",", "y", "\n", "c", "\t", ",", "z">>, \* a<TAB>,x<LF>b<TAB>,y<LF>c<TAB>,z
      <<"a", "\t", "(", "x", ")", "\n", "b", "\t", ",", "y">>, \* a<TAB>(x)<LF>b<TAB>,y
      <<"{", "\"", "a", "\"", "\t", ":", "1", "\n", ",", "\"", "b", "\"", "\t", ":", "2", "}">>, \* {"a"<TAB>:1<LF>,"b"<TAB>:2}
      <<"\t", ",", "x", "\n", "\t", ",", "y">>, \* <TAB>,x<LF><TAB>,y
      <<"a", "\t", "\n", "b", "\t", ",", "x">>, \* a<TAB><LF>b<TAB>,x
      <<"a", "\t", ",", "x", "\n", "E", "O", "S">>, \* a<TAB>,x<LF>EOS
      <<"a", "\t", ",", "x", "\n", "b", "\t", ",", "y", "\n", "E", "O", "S">> } \* a<TAB>,x<LF>b<TAB>,y<LF>EOS

SeqsUpTo(S, n) == UNION {[1..k -> S] : k \in 0..n}

EntryKeys == {<<"a">>, <<"b">>, <<"a", "b">>}

\* {"k1":"x","k2":"x"} for the keys ks
RECURSIVE JsonMembers(_)
JsonMembers(ks) ==
    IF ks = <<>> THEN <<>>
    ELSE <<"\"">> \o Head(ks) \o <<"\"", ":", "\"", "x", "\"">>
             \o (IF Len(ks) > 1 THEN <<",">> ELSE <<>>) \o JsonMembers(Tail(ks))

\* k1(x)k2(x) for the keys ks
RECURSIVE BracketGroups(_)
BracketGroups(ks) ==
    IF ks = <<>> THEN <<>>
    ELSE Head(ks) \o <<"(", "x", ")">> \o BracketGroups(Tail(ks))

GeneratedRaws ==
    {<<"{">> \o JsonMembers(ks) \o <<"}">> : ks \in SeqsUpTo(EntryKeys, MaxEntries)}
        \cup {BracketGroups(ks) : ks \in SeqsUpTo(EntryKeys, MaxEntries)}

RawInputs ==
    BlankRaws \cup JsonRaws \cup KeyValueRaws \cup KuromojiRaws \cup RubyRaws
        \cup BracketRaws \cup SpacedRaws \cup MecabRaws \cup TaggerRaws
        \cup GeneratedRaws

TextChars == {"a", "b", "<"}

TextInputs ==
    SeqsUpTo(TextChars, MaxTextLen)
        \cup { <<"a", "&", "\"", "'", ">">>, <<"b", "a", "b", "a">>, <<"x", " ", "a", "b">> }

\* the format argument: a known tag, a tag outside the type, or none
FormatInputs == KnownFormats \cup {"xml", "omitted"}

-----------------------------------------------------------------------------
(* The state machine: one call of an exported function on one input.       *)

Init ==
    /\ furiganaString \in RawInputs
    /\ originalText \in TextInputs
    /\ format \in FormatInputs
    /\ pc = "idle"
    /\ tokens = <<>>
    /\ called = "none"
    /\ branch = "none"
    /\ result = NoResult
    /\ detected = "none"
    /\ valid = FALSE
    /\ thrown = FALSE

\* the caller receives the outcome o of a parse, or its exception
Return(o) ==
    /\ tokens' = o.tokens
    /\ called' = o.called
    /\ branch' = o.branch
    /\ result' = o.result
    /\ thrown' = o.threw

ReturnBool(o) ==
    /\ valid' = o.value
    /\ thrown' = o.threw

\* parseFurigana(furiganaString, originalText, format)
ParseFurigana ==
    /\ pc = "idle"
    /\ Return(parseFurigana(furiganaString, originalText, format))
    /\ pc' = "parseFurigana"
    /\ UNCHANGED <<furiganaString, originalText, format, detected, valid>>

\* parseFuriganaAuto(furiganaString, originalText): the call has no format
ParseFuriganaAuto ==
    /\ pc = "idle"
    /\ format = "omitted"
    /\ Return(parseFuriganaAuto(furiganaString, originalText))
    /\ detected' = detectFuriganaFormat(furiganaString)
    /\ pc' = "parseFuriganaAuto"
    /\ UNCHANGED <<furiganaString, originalText, format, valid>>

\* validateFurigana(furiganaString, originalText)
ValidateFurigana ==
    /\ pc = "idle"
    /\ format = "omitted"
    /\ ReturnBool(validateFurigana(furiganaString, originalText))
    /\ detected' = detectFuriganaFormat(furiganaString)
    /\ pc' = "validateFurigana"
    /\ UNCHANGED <<furiganaString, originalText, format, tokens, called, branch, result>>

\* detectFuriganaFormat(furiganaString)
DetectFuriganaFormat ==
    /\ pc = "idle"
    /\ format = "omitted"
    /\ detected' = detectFuriganaFormat(furiganaString)
    /\ pc' = "detectFuriganaFormat"
    /\ UNCHANGED <<furiganaString, originalText, format, tokens, called, branch,
                   result, valid, thrown>>

Next ==
    \/ ParseFurigana
    \/ ParseFuriganaAuto
    \/ ValidateFurigana
    \/ DetectFuriganaFormat

Spec == Init /\ [][Next]_vars

-----------------------------------------------------------------------------
(* Properties                                                              *)

\* a parse was made and its result handed back
Parsed == pc \in {"parseFurigana", "parseFuriganaAuto"}

\* the plain-text degradation of the call's original text
PlainOf(text) == [html |-> EscapeChars(text), text |-> text, hasFurigana |-> FALSE]

\* raw is malformed structured input for fmt: not JSON or not an array for
\* kuromoji; not JSON, or a number, string, boolean or null, for json
Malformed(raw, fmt) ==
    \/ /\ fmt = "kuromoji"
       /\ ~JsonParse(raw).ok \/ JsonParse(raw).val.t /= "array"
    \/ /\ fmt = "json"
       /\ ~JsonParse(raw).ok \/ JsonParse(raw).val.t \notin {"object", "array"}

\* C1: when raw is malformed structured input for the requested format,
\* parseFurigana returns the plain-text degradation: html is the escaped
\* originalText, text is originalText and hasFurigana is false.
C1_MalformedGivesPlainText ==
    (pc = "parseFurigana" /\ Malformed(furiganaString, DefaultFormat(format)))
        => (~thrown /\ result = PlainOf(originalText))

\* C2: parseFurigana, parseFuriganaAuto and validateFurigana return a value
\* for every raw, originalText and format and never end in an exception.
C2_NeverThrows ==
    pc \in {"parseFurigana", "parseFuriganaAuto", "validateFurigana"} => ~thrown

\* C2 witness: the renderer threw on a token the json parser returned and
\* the catch block of parseFurigana turned it into the plain-text result.
C2_Witness ==
    /\ pc = "parseFurigana"
    /\ branch = "catch"
    /\ called = "json"
    /\ \E i \in 1..Len(tokens) : JsToString(tokens[i].reading).threw
    /\ result = PlainOf(originalText)
    /\ ~thrown

TokenTexts(toks) == [i \in 1..Len(toks) |-> toks[i].text.s]

\* the texts of the annotated tokens, in order
RECURSIVE AnnotatedTexts(_)
AnnotatedTexts(toks) ==
    IF toks = <<>> THEN <<>>
    ELSE (IF Head(toks).isRuby THEN <<Head(toks).text.s>> ELSE <<>>)
             \o AnnotatedTexts(Tail(toks))

\* can q be obtained from the pairs ps by dropping entries and keeping order
RECURSIVE IsSubsequenceOfKeys(_, _)
IsSubsequenceOfKeys(q, ps) ==
    IF q = <<>> THEN TRUE
    ELSE IF ps = <<>> THEN FALSE
    ELSE IF Head(q) = Head(ps).k THEN IsSubsequenceOfKeys(Tail(q), Tail(ps))
    ELSE IsSubsequenceOfKeys(q, Tail(ps))

\* the call ran the json parser on a JSON mapping, or the brackets parser
AlignedParse ==
    /\ Parsed
    /\ \/ called = "brackets"
       \/ /\ called = "json"
          /\ JsonParse(furiganaString).ok
          /\ JsonParse(furiganaString).val.t = "object"

\* the entries the parser of an aligned parse walks through
AlignedEntries ==
    IF called = "brackets" THEN BracketPairs(furiganaString, 1)
    ELSE ObjectEntries(JsonParse(furiganaString).val)

\* C3: for the json parser on a JSON mapping and for the brackets parser, the
\* texts of the emitted tokens concatenated in order are originalText, and
\* the annotated tokens are entries of raw in raw's order (an entry whose key
\* is not found in the unconsumed suffix emits no token).
C3_TokensReproduceText ==
    AlignedParse =>
        /\ Concat(TokenTexts(tokens)) = originalText
        /\ IsSubsequenceOfKeys(AnnotatedTexts(tokens), AlignedEntries)

\* C3 witness: a mapping or bracket list of which one entry matched, with
\* text before it, and another did not.
C3_Witness ==
    /\ AlignedParse
    /\ called = "json"
    /\ Len(AlignedEntries) >= 2
    /\ Len(AnnotatedTexts(tokens)) = 1
    /\ Len(tokens) >= 3
    /\ ~tokens[1].isRuby


\* the number of positions of s where sub occurs
Occurrences(s, sub) == Cardinality({p \in 1..Len(s) : OccursAt(s, sub, p)})

\* the number of characters of s that are in C
CountChars(s, C) == Cardinality({p \in 1..Len(s) : s[p] \in C})

RendererTags == {RubyOpen, RtOpen, RtEnd, RubyEnd}

Entities == {<<"&", "a", "m", "p", ";">>, <<"&", "l", "t", ";">>, <<"&", "g", "t", ";">>}

\* in html every "<" opens and every ">" closes one of the renderer's tags
\* and every "&" opens one of the three entities
MarkupEscaped(html) ==
    \A p \in 1..Len(html) :
        /\ html[p] = "<" => \E tag \in RendererTags : OccursAt(html, tag, p)
        /\ html[p] = ">" => \E tag \in RendererTags : OccursAt(html, tag, p - Len(tag) + 1)
        /\ html[p] = "&" => \E e \in Entities : OccursAt(html, e, p)

QuoteChars == {"\"", "'"}

\* the characters the renderer is handed: each token's text, and its reading
\* when the token gets a ruby fragment
RECURSIVE RenderedInput(_)
RenderedInput(toks) ==
    IF toks = <<>> THEN <<>>
    ELSE JsToString(Head(toks).text).s
             \o (IF RendersRuby(Head(toks)) THEN JsToString(Head(toks).reading).s ELSE <<>>)
             \o RenderedInput(Tail(toks))

\* the number of tokens the renderer gives a ruby fragment
RubyTokens(toks) == Cardinality({i \in 1..Len(toks) : RendersRuby(toks[i])})

\* the markup in result came from renderFuriganaHtml
FromRenderer == Parsed /\ branch = "rendered"

\* C4 (as claimed): in the markup the renderer returns, every '&', '<', '>'
\* and every quote character that comes from a token's text or reading is
\* escaped; the only unescaped '<' and '>' belong to the renderer's tags.
C4_QuotesEscapedToo ==
    FromRenderer =>
        /\ MarkupEscaped(result.html)
        /\ CountChars(result.html, QuoteChars) = 0

\* C4 (amended): in the markup the renderer returns, every '&', '<' and '>'
\* that comes from a token's text or reading is escaped, the only unescaped
\* '<' and '>' belong to the ruby/rt tags of the fragments the renderer
\* emits, one fragment per annotated token; quote characters are passed
\* through unescaped.
C4_MarkupEscaped ==
    FromRenderer =>
        /\ MarkupEscaped(result.html)
        /\ Occurrences(result.html, RubyOpen) = RubyTokens(tokens)
        /\ Occurrences(result.html, RubyEnd) = RubyTokens(tokens)
        /\ CountChars(result.html, QuoteChars) = CountChars(RenderedInput(tokens), QuoteChars)

\* C4 witness: markup with a ruby fragment whose text or reading held '&' or
\* '<', a quote character and an escaped '>'.
C4_Witness ==
    /\ FromRenderer
    /\ RubyTokens(tokens) >= 1
    /\ CountChars(RenderedInput(tokens), {"&", "<"}) >= 1
    /\ CountChars(RenderedInput(tokens), {">"}) >= 1
    /\ CountChars(result.html, QuoteChars) >= 1

\* the rules of the detector, in the order the claim gives them
Rule1(raw) ==
    StartsWith(Trim(raw), <<"{">>) /\ EndsWith(Trim(raw), <<"}">>) /\ JsonParse(raw).ok

Rule2(raw) == Includes(raw, RubyOpen) /\ Includes(raw, RtOpen)

Rule3(raw) == HasParenGroup(raw)

Rule4(raw) == Len(SplitWhitespace(raw)) >= 4

Rule5(raw) == Includes(raw, <<"\t">>) /\ Includes(raw, <<",">>)

Rule6(raw) ==
    /\ StartsWith(Trim(raw), <<"[">>)
    /\ EndsWith(Trim(raw), <<"]">>)
    /\ JsonParse(raw).ok
    /\ JsonParse(raw).val.t = "array"

\* the words of raw: its maximal runs of non-whitespace characters
RECURSIVE NonEmpty(_)
NonEmpty(parts) ==
    IF parts = <<>> THEN <<>>
    ELSE (IF Head(parts) /= <<>> THEN <<Head(parts)>> ELSE <<>>) \o NonEmpty(Tail(parts))

Words(raw) == NonEmpty(SplitWhitespace(raw))

\* raw is four words separated by whitespace, without braces, tags or
\* parentheses
FourPlainWords(raw) ==
    /\ Len(Words(raw)) = 4
    /\ Len(SplitWhitespace(raw)) = 4
    /\ CountChars(raw, {"{", "}", "<", ">", "(", ")"}) = 0

Detected == pc \in {"detectFuriganaFormat", "parseFuriganaAuto", "validateFurigana"}

\* C5: detectFuriganaFormat is total and returns the tag of the first rule
\* that matches, in the order json object, ruby, brackets, spaced, mecab,
\* kuromoji array, else json; empty input is json; four plain
\* whitespace-separated words are spaced.
C5_DetectFirstMatch ==
    Detected =>
        LET raw == furiganaString
        IN  /\ detected \in KnownFormats
            /\ raw = <<>> => detected = "json"
            /\ (raw /= <<>> /\ Rule1(raw)) => detected = "json"
            /\ (raw /= <<>> /\ ~Rule1(raw) /\ Rule2(raw)) => detected = "ruby"
            /\ (raw /= <<>> /\ ~Rule1(raw) /\ ~Rule2(raw) /\ Rule3(raw))
                   => detected = "brackets"
            /\ (raw /= <<>> /\ ~Rule1(raw) /\ ~Rule2(raw) /\ ~Rule3(raw) /\ Rule4(raw))
                   => detected = "spaced"
            /\ (raw /= <<>> /\ ~Rule1(raw) /\ ~Rule2(raw) /\ ~Rule3(raw) /\ ~Rule4(raw)
                   /\ Rule5(raw)) => detected = "mecab"
            /\ (raw /= <<>> /\ ~Rule1(raw) /\ ~Rule2(raw) /\ ~Rule3(raw) /\ ~Rule4(raw)
                   /\ ~Rule5(raw) /\ Rule6(raw)) => detected = "kuromoji"
            /\ (raw /= <<>> /\ ~Rule1(raw) /\ ~Rule2(raw) /\ ~Rule3(raw) /\ ~Rule4(raw)
                   /\ ~Rule5(raw) /\ ~Rule6(raw)) => detected = "json"
            /\ FourPlainWords(raw) => detected = "spaced"

\* C5 witness: four plain words tagged spaced although the later mecab rule
\* (a tab and a comma) matches them too.
C5_Witness ==
    /\ pc = "detectFuriganaFormat"
    /\ FourPlainWords(furiganaString)
    /\ Rule5(furiganaString)
    /\ detected = "spaced"


\* C6: parseFurigana returns the plain-text result whenever raw is empty or
\* whitespace-only, whatever the originalText and the format, and whenever
\* raw is not blank but the format given is none of the six known tags; no
\* format parser is invoked in either case.
C6_BlankOrUnknownGivesPlainText ==
    (/\ pc = "parseFurigana"
     /\ \/ Words(furiganaString) = <<>>
        \/ format \notin (KnownFormats \cup {"omitted"}))
        => /\ ~thrown
           /\ result = PlainOf(originalText)
           /\ called = "none"
           /\ tokens = <<>>

\* C6 witness: whitespace-only raw under a known format, with an original
\* text that needs escaping.
C6_Witness ==
    /\ pc = "parseFurigana"
    /\ furiganaString /= <<>>
    /\ Words(furiganaString) = <<>>
    /\ format = "spaced"
    /\ CountChars(originalText, {"<", "&"}) >= 1
    /\ branch = "blank"
    /\ result.html /= originalText

\* the tokens of words read pairwise: word 2k is the text of token k and word
\* 2k+1 its reading; a last word without a partner is left unannotated
RECURSIVE PairedTokens(_)
PairedTokens(words) ==
    IF words = <<>> THEN <<>>
    ELSE IF Len(words) = 1 THEN <<PlainToken(words[1])>>
    ELSE <<Token(JsStr(words[1]), JsStr(words[2]), TRUE)>>
             \o PairedTokens(SubSeq(words, 3, Len(words)))

\* C7: the spaced parser reads the words of every whitespace-separated raw
\* pairwise, leading or trailing whitespace included: no word is dropped or
\* paired with the wrong neighbour.
C7_SpacedPairsWords ==
    (Parsed /\ called = "spaced") => tokens = PairedTokens(Words(furiganaString))

\* the reading the mecab parser is to give the token of a line
MecabReadingOf(line) ==
    LET fields == SplitChar(SplitChar(line, "\t")[2], ",")
    IN  IF Len(fields) >= 8 /\ fields[8] /= Star THEN JsStr(fields[8]) ELSE JsUndefined

\* the lines of tagger output that are to give a token
RECURSIVE TokenLines(_)
TokenLines(lines) ==
    IF lines = <<>> THEN <<>>
    ELSE (IF Trim(Head(lines)) /= Eos /\ Len(SplitChar(Head(lines), "\t")) >= 2
          THEN <<Head(lines)>> ELSE <<>>) \o TokenLines(Tail(lines))

\* has the token a reading that differs from its text
ReadingDiffers(token) ==
    Truthy(token.reading) /\ ~StrictEquals(token.reading, token.text)

\* C8: every token of the mecab and kuromoji parsers is flagged annotated
\* exactly when it has a reading that differs from its own text; a mecab
\* reading is feature 7 unless absent or "*", and an EOS line gives no token.
C8_AnnotatedIffReadingDiffers ==
    (Parsed /\ called \in {"mecab", "kuromoji"}) =>
        /\ \A i \in 1..Len(tokens) : tokens[i].isRuby <=> ReadingDiffers(tokens[i])
        /\ called = "mecab" =>
               LET lines == TokenLines(SplitChar(furiganaString, "\n"))
               IN  /\ Len(tokens) = Len(lines)
                   /\ \A i \in 1..Len(lines) : tokens[i].reading = MecabReadingOf(lines[i])

\* C9: every token a format parser emits has a non-empty text.
C9_TokenTextNonEmpty ==
    (Parsed /\ called \in KnownFormats) =>
        \A i \in 1..Len(tokens) : tokens[i].text /= JsStr(<<>>)

\* C10: hasFurigana agrees with the rendering: it is true exactly when the
\* returned html holds a ruby fragment of the renderer, and in rendered
\* markup a token counts toward hasFurigana exactly when it is rendered as a
\* ruby fragment.
C10_HasFuriganaAgreesWithHtml ==
    Parsed =>
        /\ result.hasFurigana <=> Occurrences(result.html, RubyOpen) >= 1
        /\ branch = "rendered" =>
               /\ Occurrences(result.html, RubyOpen) =
                      Cardinality({i \in 1..Len(tokens) : ReadingDiffers(tokens[i])})
               /\ \A i \in 1..Len(tokens) : ReadingDiffers(tokens[i]) => tokens[i].isRuby

\* C10 witness: a kuromoji token flagged annotated whose reading equals its
\* text (taken from the text field), rendered plain and not counted.
C10_Witness ==
    /\ pc = "parseFurigana"
    /\ called = "kuromoji"
    /\ branch = "rendered"
    /\ \E i \in 1..Len(tokens) : tokens[i].isRuby /\ ~ReadingDiffers(tokens[i])
    /\ ~result.hasFurigana
    /\ result.html /= <<>>

\* is line a token line of tagger output: a surface and a feature list, each
\* with a character that is not whitespace, around the first tab
TaggerLine(line) ==
    LET p == IndexOf(line, <<"\t">>)
    IN  /\ p /= -1
        /\ Words(Substring(line, 0, p)) /= <<>>
        /\ Words(SubstringFrom(line, p + 1)) /= <<>>

TaggerLineCount(raw) ==
    LET lines == SplitChar(raw, "\n")
    IN  Cardinality({i \in 1..Len(lines) : TaggerLine(lines[i])})

\* C11: detectFuriganaFormat returns "mecab" only for a raw string that
\* split(/\s+/) cuts into fewer than 4 parts; tagger output with two or more
\* token lines surface<TAB>features has at least 4 parts, is never tagged
\* mecab but spaced, or json, ruby or brackets when one of these earlier
\* rules matches, and parseFuriganaAuto hands it to the parser of that tag,
\* never to the mecab parser.
C11_MecabOnlyUnderFourParts ==
    LET raw == furiganaString
    IN  /\ (Detected /\ detected = "mecab") => Len(SplitWhitespace(raw)) < 4
        /\ (Detected /\ TaggerLineCount(raw) >= 2) =>
               /\ Rule4(raw)
               /\ detected /= "mecab"
               /\ detected = "json" => Rule1(raw)
               /\ detected = "ruby" => Rule2(raw)
               /\ detected = "brackets" => Rule3(raw)
               /\ detected = "kuromoji" => FALSE
               /\ (~Rule1(raw) /\ ~Rule2(raw) /\ ~Rule3(raw)) => detected = "spaced"
        /\ (pc = "parseFuriganaAuto" /\ TaggerLineCount(raw) >= 2) =>
               /\ called = detected
               /\ called /= "mecab"

\* C11 witness: two token lines with a tab and a comma, which the mecab test
\* would accept, parsed by the spaced parser into tokens.
C11_Witness ==
    /\ pc = "parseFuriganaAuto"
    /\ TaggerLineCount(furiganaString) >= 2
    /\ Rule5(furiganaString)
    /\ ~Rule1(furiganaString) /\ ~Rule2(furiganaString) /\ ~Rule3(furiganaString)
    /\ detected = "spaced"
    /\ called = "spaced"
    /\ tokens /= <<>>

=============================================================================
